---- MODULE Spec2Model ----
(***************************************************************************)
(* Model of peoples_daily.Paper: one run of Paper.__call__ for one date.   *)
(* The run probes page serials 1, 2, ... ; for each serial it resolves the *)
(* landing page to a document URL, fetches the document through the        *)
(* session chain, and finally merges and saves (optionally compressing)    *)
(* the collected pages.                                                    *)
(*                                                                         *)
(* Optional values (Python None / value) are sequences of length 0 / 1.    *)
(* URLs are sequences of path segments whose first segment is the origin.  *)
(* Every HTTP answer and every outcome of the optimizer subprocess is an   *)
(* input of the environment, chosen when the call is made.                 *)
(* Base locations are taken to end in "/", as the built-in one does.       *)
(* The verbose flag only prints and is left out.                           *)
(***************************************************************************)
EXTENDS Integers, Sequences, FiniteSets, TLC

VARIABLES
    env,                \* os.environ restricted to the four proxy keys
    override,           \* os.environ.get('PEOPLES_DAILY_BASE_URLS')
    compress,           \* self.compress
    fallback_session,   \* self._fallback_session (None or a session)
    pc,                 \* position of the run inside __call__
    serial_nb,          \* _load_pages: serial_nb
    pages,              \* _load_pages: pages
    fetched,            \* _load_pages: last value returned by _fetch_page
    layout_i,           \* _resolve_pdf_url: position in _layout_urls
    sess_i,             \* position in _iter_sessions of the running loop
    pdf_url,            \* _fetch_page: pdf_url
    writer,             \* _merge: pages added to the PdfWriter
    file,               \* the file at file_path
    file0,              \* the file at file_path when the run started
    error,              \* exception that left __call__, if any
    trace,              \* requests issued by the current _fetch_page call
    probed,             \* serials for which a request was issued
    served,             \* documents the site answered with, per serial
    calls,              \* how often each step was entered
    gs,                 \* what the optimizer step met in this run
    tmp                 \* temporary files of the optimizer step

vars == <<env, override, compress, fallback_session, pc, serial_nb, pages,
          fetched, layout_i, sess_i, pdf_url, writer, file, file0, error,
          trace, probed, served, calls, gs, tmp>>

(***************************************************************************)
(* Bounds                                                                  *)
(***************************************************************************)
\* highest serial the loader may probe
MaxSerial == 3

None == <<>>
Some(x) == <<x>>

(***************************************************************************)
(* Environment: proxy variables and sessions                               *)
(***************************************************************************)
ProxyKeys == <<"http_proxy", "https_proxy", "HTTP_PROXY", "HTTPS_PROXY">>

Unset == "<unset>"

EnvValues == {Unset, "", "http://127.0.0.1:7890"}

\* os.environ.get(key) is truthy: set and non-empty
Truthy(v) == v # Unset /\ v # ""

ProxiesConfigured_lowercase_only ==
    \E i \in 1..2 : Truthy(env[ProxyKeys[i]])

ProxiesConfigured ==
    \E i \in 1..Len(ProxyKeys) : Truthy(env[ProxyKeys[i]])

BuildSession(trust) == [trust_env |-> trust, headers |-> "default_headers"]

PrimarySession == BuildSession(TRUE)

FallbackSession == BuildSession(FALSE)

IterSessions_fallback_first ==
    IF fallback_session # None
    THEN <<fallback_session[1], PrimarySession>>
    ELSE <<PrimarySession>>

IterSessions ==
    IF fallback_session # None
    THEN <<PrimarySession, fallback_session[1]>>
    ELSE <<PrimarySession>>

(***************************************************************************)
(* Landing-page URLs                                                       *)
(***************************************************************************)
\* the date of the run, as the two fragments the URL uses (%Y%m and %d)
Date == [ym |-> "202407", dd |-> "01"]

DefaultBase == <<"https://paper.people.com.cn", "rmrb", "pc", "layout">>

MirrorA == <<"https://mirror-a.example", "layout">>

\* A value of PEOPLES_DAILY_BASE_URLS: unset, or the comma-separated parts
\* of the string; a part is a base (<<>> for no text) with or without
\* surrounding blanks.
Part(ws, base) == [ws |-> ws, base |-> base]

OverrideUnset == [set |-> FALSE, parts |-> <<>>]

OverrideValues ==
    { OverrideUnset,
      [set |-> TRUE, parts |-> <<Part(FALSE, <<>>)>>],
      [set |-> TRUE, parts |-> <<Part(FALSE, MirrorA), Part(TRUE, DefaultBase)>>],
      [set |-> TRUE, parts |-> <<Part(TRUE, <<>>), Part(FALSE, <<>>)>>] }

\* the override string is "" : a single part without any character
IsEmptyString(parts) == Len(parts) = 1 /\ ~parts[1].ws /\ parts[1].base = <<>>

RECURSIVE StripAndFilter(_)
StripAndFilter(parts) ==
    IF parts = <<>> THEN <<>>
    ELSE IF Head(parts).base = <<>>
         THEN StripAndFilter(Tail(parts))
         ELSE <<Head(parts).base>> \o StripAndFilter(Tail(parts))

LayoutBaseUrls ==
    IF override.set /\ ~IsEmptyString(override.parts)
    THEN StripAndFilter(override.parts)
    ELSE <<DefaultBase>>

\* f'node_{serial_nb:02d}.html'
NodeNames == <<"node_01.html", "node_02.html", "node_03.html",
               "node_04.html", "node_05.html", "node_06.html">>

LayoutUrls(n) ==
    [i \in 1..Len(LayoutBaseUrls) |->
        LayoutBaseUrls[i] \o <<Date.ym, Date.dd, NodeNames[n]>>]

(***************************************************************************)
(* Landing-page HTML: the attributes of the page, in document order.      *)
(* A reference is absolute, or relative with `ups` leading "../" parts.    *)
(***************************************************************************)
Ref(abs, ups, path, ext) == [abs |-> abs, ups |-> ups, path |-> path, ext |-> ext]

RelPdfRef == Ref(FALSE, 2, <<"pc", "PDF", "202407", "01", "rmrb2024070101.pdf">>, "pdf")

AbsPdfRef == Ref(TRUE, 0, <<"https://cdn.example", "rmrb2024070101.PDF">>, "PDF")

HtmlRef == Ref(FALSE, 0, <<"node_02.html">>, "html")

Attr(name, quoted, ref) == [attr |-> name, quoted |-> quoted, ref |-> ref]

Htmls ==
    { <<>>,
      <<Attr("href", TRUE, RelPdfRef)>>,
      <<Attr("href", TRUE, HtmlRef), Attr("HREF", TRUE, AbsPdfRef)>>,
      <<Attr("src", TRUE, RelPdfRef), Attr("href", FALSE, RelPdfRef)>> }

\* re.IGNORECASE
Lower(s) ==
    CASE s = "HREF" -> "href"
      [] s = "PDF" -> "pdf"
      [] OTHER -> s

\* href=["']([^"']+\.pdf)["']
PatternMatches(a) == Lower(a.attr) = "href" /\ a.quoted /\ Lower(a.ref.ext) = "pdf"

RECURSIVE ExtractPdfHref(_)
ExtractPdfHref(html) ==
    IF html = <<>> THEN None
    ELSE IF PatternMatches(Head(html)) THEN Some(Head(html).ref)
         ELSE ExtractPdfHref(Tail(html))

\* urllib.parse.urljoin for the two shapes of reference
UrlJoin_keep_file(base, ref) ==
    IF ref.abs THEN ref.path
    ELSE LET keep == IF Len(base) - ref.ups > 1 THEN Len(base) - ref.ups ELSE 1
         IN  SubSeq(base, 1, keep) \o ref.path

UrlJoin(base, ref) ==
    IF ref.abs THEN ref.path
    ELSE LET dir  == SubSeq(base, 1, Len(base) - 1)
             keep == IF Len(dir) - ref.ups > 1 THEN Len(dir) - ref.ups ELSE 1
         IN  SubSeq(dir, 1, keep) \o ref.path

(***************************************************************************)
(* HTTP answers                                                            *)
(***************************************************************************)
\* kind: "exception" (requests.RequestException), "error" (response.ok is
\* false) or "ok"; text is the HTML of a landing page, content the bytes
\* of a document
Response(kind, text, content) == [kind |-> kind, text |-> text, content |-> content]

\* a page document: its bytes, named, and the pages a PdfReader finds in it
Blob(id, units) == [id |-> id, units |-> units]

Blobs == { Blob("A", <<"a1">>), Blob("B", <<"b1", "b2">>) }

NoBlob == Blob("", <<>>)

LayoutResponses ==
    { Response("exception", <<>>, NoBlob), Response("error", <<>>, NoBlob) }
    \cup { Response("ok", h, NoBlob) : h \in Htmls }

PdfResponses ==
    { Response("exception", <<>>, NoBlob), Response("error", <<>>, NoBlob) }
    \cup { Response("ok", <<>>, b) : b \in Blobs }

Request(phase, n, url, sess, resp) ==
    [phase |-> phase, serial |-> n, url |-> url, sess |-> sess, resp |-> resp]

(***************************************************************************)
(* The PDF library (pypdf), as far as the run uses it                     *)
(***************************************************************************)
\* PdfReader(io.BytesIO(page_bytes), strict=False).pages
ReaderPages(page_bytes) == page_bytes.units

\* the loops of _merge: every page of every document, in order
RECURSIVE MergePages(_)
MergePages(ps) ==
    IF ps = <<>> THEN <<>>
    ELSE ReaderPages(Head(ps)) \o MergePages(Tail(ps))

\* writer.write(buffer); buffer.getvalue()
Serialize(w) == <<"%PDF-1.3">> \o w \o <<"%%EOF">>

(***************************************************************************)
(* The destination file and the optimizer (Ghostscript) step               *)
(***************************************************************************)
Absent == [exists |-> FALSE, data |-> <<>>]

Written(bytes) == [exists |-> TRUE, data |-> bytes]

OldFile == Written(<<"old">>)

GsNames == <<"gs", "gswin64c", "gswin32c">>

\* shutil.which('gs') or shutil.which('gswin64c') or shutil.which('gswin32c')
Which(installed) ==
    IF GsNames[1] \in installed THEN Some(GsNames[1])
    ELSE IF GsNames[2] \in installed THEN Some(GsNames[2])
    ELSE IF GsNames[3] \in installed THEN Some(GsNames[3])
    ELSE None

GsBytes(n) == [i \in 1..n |-> "gs"]

\* What the optimizer step meets: the executables on PATH, the first call
\* that raises OSError (if any), the exit code of the subprocess and the
\* output file it leaves (None when the file is gone).
Outcome(installed, fail_at, returncode, out) ==
    [installed |-> installed, fail_at |-> fail_at,
     returncode |-> returncode, out |-> out]

NoOutcome == Outcome({}, "none", 0, None)

FailPoints == {"mkstemp_input", "mkstemp_output", "write_input", "run"}

OutLens(pdf_bytes) ==
    {0, Len(pdf_bytes) - 1, Len(pdf_bytes), Len(pdf_bytes) + 1}

OptimizerOutcomes(pdf_bytes) ==
    { NoOutcome }
    \cup { Outcome(i, f, 0, None) :
             i \in {{"gs"}, {"gswin64c", "gswin32c"}}, f \in FailPoints }
    \cup { Outcome(i, "none", rc, out) :
             i \in {{"gs"}, {"gswin64c", "gswin32c"}}, rc \in {0, 1},
             out \in {None} \cup { Some(GsBytes(n)) : n \in OutLens(pdf_bytes) } }

\* result of _compress_with_ghostscript: an OSError leaving it, or the value
\* returned; how often subprocess.run was called; the temporary files after it
GsResult(raised, value, runs, tin, tout) ==
    [raised |-> raised, value |-> value, runs |-> runs,
     tmp |-> [input |-> tin, output |-> tout]]

NoTmp == [input |-> "none", output |-> "none"]

Improves_or_equal(optimized, pdf_bytes) ==
    optimized # <<>> /\ Len(optimized) <= Len(pdf_bytes)

\* optimized and len(optimized) < len(pdf_bytes)
Improves(optimized, pdf_bytes) ==
    optimized # <<>> /\ Len(optimized) < Len(pdf_bytes)

CompressWithGhostscript(pdf_bytes, o) ==
    IF Which(o.installed) = None
    THEN GsResult(FALSE, None, 0, "none", "none")
    ELSE IF o.fail_at = "mkstemp_input"
    THEN GsResult(TRUE, None, 0, "none", "none")
    ELSE IF o.fail_at = "mkstemp_output"
    THEN GsResult(TRUE, None, 0, "left", "none")
    ELSE IF o.fail_at = "write_input"
    THEN GsResult(TRUE, None, 0, "removed", "removed")
    ELSE IF o.fail_at = "run"
    THEN GsResult(TRUE, None, 1, "removed", "removed")
    ELSE IF o.returncode # 0
    THEN GsResult(FALSE, None, 1, "removed", "removed")
    ELSE IF o.out = None
    THEN GsResult(FALSE, None, 1, "removed", "removed")
    ELSE IF Improves(o.out[1], pdf_bytes)
    THEN GsResult(FALSE, o.out, 1, "removed", "removed")
    ELSE GsResult(FALSE, None, 1, "removed", "removed")

Compress_ignores_optimizer(pdf_bytes, o) == pdf_bytes

\* _compress, when _compress_with_ghostscript returns
Compress(pdf_bytes, o) ==
    LET compressed == CompressWithGhostscript(pdf_bytes, o).value
    IN  IF compressed # None THEN compressed[1] ELSE pdf_bytes

ShouldCompress_always == TRUE

\* _save: if self.compress
ShouldCompress == compress

(***************************************************************************)
(* The run                                                                 *)
(***************************************************************************)
NoCalls == [merge |-> 0, save |-> 0, compress |-> 0, gs_run |-> 0]

KeySet == {ProxyKeys[i] : i \in 1..Len(ProxyKeys)}

Envs == [KeySet -> EnvValues]

\* environments with at most one key that is not unset, and the one with
\* every key set to the empty string
FewEnvs ==
    { e \in Envs : Cardinality({k \in KeySet : e[k] # Unset}) <= 1 }
    \cup { [k \in KeySet |-> ""] }

\* Paper(date, verbose, compress), about to be called with file_path
Construct(envs, overrides, flags, files) ==
    /\ env \in envs
    /\ override \in overrides
    /\ compress \in flags
    /\ fallback_session = IF ProxiesConfigured THEN Some(FallbackSession) ELSE None
    /\ pc = "resolve"
    /\ serial_nb = 1
    /\ pages = <<>>
    /\ fetched = None
    /\ layout_i = 1
    /\ sess_i = 1
    /\ pdf_url = None
    /\ writer = <<>>
    /\ file0 \in files
    /\ file = file0
    /\ error = "none"
    /\ trace = <<>>
    /\ probed = {}
    /\ served = {}
    /\ calls = NoCalls
    /\ gs = [seen |-> FALSE, outcome |-> NoOutcome]
    /\ tmp = NoTmp

Init == Construct(FewEnvs, OverrideValues, BOOLEAN, {Absent, OldFile})

\* every proxy environment, for a run that neither compresses nor overwrites
InitEnv ==
    Construct(Envs, {OverrideUnset, [set |-> TRUE, parts |-> <<Part(TRUE, <<>>)>>]},
              {FALSE}, {Absent})

LoadStops_continues ==
    /\ fetched' = None
    /\ serial_nb' = serial_nb + 1
    /\ pc' = "resolve"
    /\ layout_i' = 1
    /\ sess_i' = 1
    /\ UNCHANGED <<pages, pdf_url>>

\* _fetch_page returned None: _load_pages leaves its loop
LoadStops ==
    /\ fetched' = None
    /\ pc' = "check"
    /\ UNCHANGED <<serial_nb, pages, layout_i, sess_i, pdf_url>>

\* _resolve_pdf_url found nothing to request: _layout_urls is empty
ResolveNothing ==
    /\ pc = "resolve"
    /\ serial_nb <= MaxSerial
    /\ Len(LayoutUrls(serial_nb)) = 0
    /\ LoadStops
    /\ trace' = <<>>
    /\ UNCHANGED <<env, override, compress, fallback_session, writer, file,
                   file0, error, probed, served, calls, gs, tmp>>

\* one session.get(layout_url) of _resolve_pdf_url and what follows it up
\* to the next request
LayoutGet ==
    /\ pc = "resolve"
    /\ serial_nb <= MaxSerial
    /\ layout_i <= Len(LayoutUrls(serial_nb))
    /\ \E r \in LayoutResponses :
         LET layout_url == LayoutUrls(serial_nb)[layout_i]
             session    == IterSessions[sess_i]
             pdf_href   == IF r.kind = "ok" THEN ExtractPdfHref(r.text) ELSE None
         IN  /\ trace' = (IF layout_i = 1 /\ sess_i = 1 THEN <<>> ELSE trace)
                           \o <<Request("layout", serial_nb, layout_url, session, r)>>
             /\ probed' = probed \cup {serial_nb}
             /\ IF pdf_href # None
                THEN /\ pdf_url' = Some(UrlJoin(layout_url, pdf_href[1]))
                     /\ pc' = "fetch"
                     /\ sess_i' = 1
                     /\ UNCHANGED <<serial_nb, pages, fetched, layout_i>>
                ELSE IF sess_i < Len(IterSessions)
                THEN /\ sess_i' = sess_i + 1
                     /\ UNCHANGED <<pc, serial_nb, pages, fetched, layout_i, pdf_url>>
                ELSE IF layout_i < Len(LayoutUrls(serial_nb))
                THEN /\ layout_i' = layout_i + 1
                     /\ sess_i' = 1
                     /\ UNCHANGED <<pc, serial_nb, pages, fetched, pdf_url>>
                ELSE LoadStops
    /\ UNCHANGED <<env, override, compress, fallback_session, writer, file,
                   file0, error, served, calls, gs, tmp>>

\* one session.get(pdf_url) of _fetch_page and what follows it up to the
\* next request
PdfGet ==
    /\ pc = "fetch"
    /\ \E r \in PdfResponses :
         LET session == IterSessions[sess_i]
         IN  /\ trace' = Append(trace,
                    Request("pdf", serial_nb, pdf_url[1], session, r))
             /\ probed' = probed \cup {serial_nb}
             /\ IF r.kind = "ok"
                THEN /\ fetched' = Some(r.content)
                     /\ pages' = Append(pages, r.content)
                     /\ serial_nb' = serial_nb + 1
                     /\ served' = served \cup
                            {[serial |-> serial_nb, content |-> r.content]}
                     /\ pc' = "resolve"
                     /\ layout_i' = 1
                     /\ sess_i' = 1
                     /\ UNCHANGED pdf_url
                ELSE IF sess_i < Len(IterSessions)
                THEN /\ sess_i' = sess_i + 1
                     /\ UNCHANGED <<pc, serial_nb, pages, fetched, layout_i,
                                    pdf_url, served>>
                ELSE /\ LoadStops
                     /\ UNCHANGED served
    /\ UNCHANGED <<env, override, compress, fallback_session, writer, file,
                   file0, error, calls, gs, tmp>>

IntegrityOk_always(ps) == TRUE

\* _check_integrity does not raise
IntegrityOk(ps) == Len(ps) # 0

\* __call__ after _load_pages returned: the locals of the loader are gone
CheckIntegrity ==
    /\ pc = "check"
    /\ IF IntegrityOk(pages)
       THEN pc' = "merge" /\ UNCHANGED error
       ELSE pc' = "raised" /\ error' = "Exception"
    /\ fetched' = None
    /\ layout_i' = 1
    /\ sess_i' = 1
    /\ pdf_url' = None
    /\ trace' = <<>>
    /\ UNCHANGED <<env, override, compress, fallback_session, serial_nb, pages,
                   writer, file, file0, probed, served, calls, gs, tmp>>

Merge ==
    /\ pc = "merge"
    /\ writer' = MergePages(pages)
    /\ calls' = [calls EXCEPT !.merge = @ + 1]
    /\ pc' = "save"
    /\ UNCHANGED <<env, override, compress, fallback_session, serial_nb, pages,
                   fetched, layout_i, sess_i, pdf_url, file, file0, error,
                   trace, probed, served, gs, tmp>>

\* _save with everything it calls: serialize, compress if asked, write
Save ==
    /\ pc = "save"
    /\ LET pdf_bytes == Serialize(writer)
       IN  IF ShouldCompress
           THEN \E o \in OptimizerOutcomes(pdf_bytes) :
                  LET r == CompressWithGhostscript(pdf_bytes, o)
                  IN  /\ gs' = [seen |-> TRUE, outcome |-> o]
                      /\ tmp' = r.tmp
                      /\ calls' = [calls EXCEPT !.save = @ + 1,
                                                !.compress = @ + 1,
                                                !.gs_run = @ + r.runs]
                      /\ IF r.raised
                         THEN /\ pc' = "raised"
                              /\ error' = "OSError"
                              /\ UNCHANGED file
                         ELSE /\ pc' = "done"
                              /\ file' = Written(Compress(pdf_bytes, o))
                              /\ UNCHANGED error
           ELSE /\ calls' = [calls EXCEPT !.save = @ + 1]
                /\ file' = Written(pdf_bytes)
                /\ pc' = "done"
                /\ UNCHANGED <<gs, tmp, error>>
    /\ UNCHANGED <<env, override, compress, fallback_session, serial_nb, pages,
                   fetched, layout_i, sess_i, pdf_url, writer, file0, trace,
                   probed, served>>

Next ==
    \/ ResolveNothing
    \/ LayoutGet
    \/ PdfGet
    \/ CheckIntegrity
    \/ Merge
    \/ Save

Spec == Init /\ [][Next]_vars

SpecEnv == InitEnv /\ [][Next]_vars

(***************************************************************************)
(* Vocabulary of the properties                                            *)
(***************************************************************************)
Loading == pc \in {"resolve", "fetch"}

LayoutPart == SelectSeq(trace, LAMBDA q : q.phase = "layout")

PdfPart == SelectSeq(trace, LAMBDA q : q.phase = "pdf")

\* the transports a request loop may use: the primary one, then the
\* environment-ignoring one if it was built
TransportCount == IF fallback_session = None THEN 1 ELSE 2

IsPrimary(session) == session.trust_env

Failed(q) == q.resp.kind # "ok"

\* the landing page answered and carries a quoted href ending in .pdf
Yields(q) ==
    /\ q.resp.kind = "ok"
    /\ \E i \in 1..Len(q.resp.text) : PatternMatches(q.resp.text[i])

FirstPdfRef(html) ==
    html[CHOOSE i \in 1..Len(html) :
            /\ PatternMatches(html[i])
            /\ \A j \in 1..(i - 1) : ~PatternMatches(html[j])].ref

\* the blob at position i of pages is the document served for serial i
PagesAreServed ==
    \A i \in 1..Len(pages) :
        {s \in served : s.serial = i} = {[serial |-> i, content |-> pages[i]]}

SomeProxySet ==
    \E k \in {"http_proxy", "https_proxy", "HTTP_PROXY", "HTTPS_PROXY"} :
        env[k] # Unset /\ env[k] # ""

OptimizerFound == gs.seen /\ gs.outcome.installed # {}

(***************************************************************************)
(* C1: a date with N >= 1 resolvable pages (serial N+1 is not resolvable)  *)
(* ends with exactly the N documents served for serials 1..N, in that      *)
(* order, and with one non-empty output file written by the run.           *)
(***************************************************************************)
C1_PagesLoadedAndFileProduced ==
    (pc \in {"done", "raised"} /\ Len(pages) >= 1) =>
        /\ PagesAreServed
        /\ serial_nb = Len(pages) + 1
        /\ pc = "done"
        /\ calls.save = 1
        /\ file.exists
        /\ file # file0
        /\ Len(file.data) > 0

(***************************************************************************)
(* C2: when no page was collected the run ends with the exception of the   *)
(* integrity check, neither _merge nor _save is entered, and the file at   *)
(* the destination is what it was before the run.                          *)
(***************************************************************************)
C2_NoPagesNoOutput ==
    (~Loading /\ pc # "check" /\ pages = <<>>) =>
        /\ pc = "raised"
        /\ error = "Exception"
        /\ calls.merge = 0
        /\ calls.save = 0
        /\ writer = <<>>
        /\ file = file0

C2_Witness ==
    /\ pc = "raised"
    /\ pages = <<>>
    /\ 1 \in probed
    /\ file0 = OldFile
    /\ file = OldFile

(***************************************************************************)
(* C3: the loader stops at the first serial whose resolution or fetch      *)
(* fails, whichever of the two it was: no request is issued for a higher   *)
(* serial, and the pages returned are exactly the documents of the serials *)
(* before it.                                                              *)
(***************************************************************************)
C3_StopsAtFirstFailure ==
    /\ probed \subseteq 1..(Len(pages) + 1)
    /\ serial_nb = Len(pages) + 1
    /\ PagesAreServed
    /\ \A s \in served : s.serial \in 1..Len(pages)
    /\ pc = "check" =>
          /\ fetched = None
          /\ \A k \in 1..Len(trace) : trace[k].serial = Len(pages) + 1
          /\ \A k \in 1..Len(trace) :
                IF trace[k].phase = "pdf" THEN Failed(trace[k])
                ELSE Yields(trace[k]) => PdfPart # <<>>

C3_Witness ==
    /\ pc = "check"
    /\ Len(pages) = 1
    /\ trace # <<>>
    /\ trace[Len(trace)].phase = "pdf"
    /\ probed = {1, 2}

(***************************************************************************)
(* C4: for one document URL the transports are tried at most once each,    *)
(* primary first, then the fallback if there is one; only a failure (an    *)
(* exception or a non-success status) is followed by another attempt; the  *)
(* first success ends the loop and its body is the result; when every      *)
(* transport failed the result is None.                                    *)
(***************************************************************************)
C4_TransportChain ==
    LET t == PdfPart
        n == Len(PdfPart)
    IN  /\ n <= TransportCount
        /\ \A k \in 1..n :
              /\ IsPrimary(t[k].sess) <=> (k = 1)
              /\ t[k].url = t[1].url
              /\ t[k].serial = t[1].serial
        /\ \A k \in 1..(n - 1) : Failed(t[k])
        /\ (n >= 1 /\ ~Failed(t[n])) =>
              /\ pc = "resolve"
              /\ fetched = Some(t[n].resp.content)
              /\ pages[Len(pages)] = t[n].resp.content
        /\ (n >= 1 /\ Failed(t[n])) =>
              IF n < TransportCount
              THEN pc = "fetch" /\ sess_i = n + 1
              ELSE pc = "check" /\ fetched = None
        /\ pc = "fetch" => n < TransportCount /\ sess_i = n + 1

C4_Witness ==
    /\ Len(PdfPart) = 2
    /\ PdfPart[1].resp.kind = "exception"
    /\ IsPrimary(PdfPart[1].sess)
    /\ PdfPart[2].resp.kind = "ok"
    /\ ~IsPrimary(PdfPart[2].sess)
    /\ fetched = Some(PdfPart[2].resp.content)

(***************************************************************************)
(* C5: the landing pages are requested in the configured order of base     *)
(* locations; the first answer that carries a quoted href ending in .pdf   *)
(* ends the search with that reference joined to the landing-page URL it   *)
(* came from; the result is None exactly when every request of every       *)
(* candidate raised, had a non-success status or carried no such href.     *)
(***************************************************************************)
TestLayoutUrl ==
    <<"https://paper.people.com.cn", "rmrb", "pc", "layout",
      "202407", "01", "node_01.html">>

\* urljoin(TestLayoutUrl, "../../pc/PDF/202407/01/rmrb2024070101.pdf")
TestPdfUrl ==
    <<"https://paper.people.com.cn", "rmrb", "pc", "layout",
      "pc", "PDF", "202407", "01", "rmrb2024070101.pdf">>

C5_ResolveFirstMatch ==
    LET l == LayoutPart
        m == Len(LayoutPart)
        candidates == Len(LayoutBaseUrls)
    IN  /\ m <= candidates * TransportCount
        /\ \A k \in 1..m :
              /\ l[k].url = LayoutBaseUrls[((k - 1) \div TransportCount) + 1]
                              \o <<"202407", "01", NodeNames[l[k].serial]>>
              /\ IsPrimary(l[k].sess) <=> ((k - 1) % TransportCount = 0)
        /\ \A k \in 1..(m - 1) : ~Yields(l[k])
        /\ (m >= 1 /\ Yields(l[m])) =>
              /\ pc = "fetch" \/ PdfPart # <<>>
              /\ pdf_url = Some(UrlJoin(l[m].url, FirstPdfRef(l[m].resp.text)))
              /\ (l[m].url = TestLayoutUrl
                    /\ FirstPdfRef(l[m].resp.text) = RelPdfRef)
                 => pdf_url = Some(TestPdfUrl)
              /\ FirstPdfRef(l[m].resp.text).abs
                 => pdf_url = Some(FirstPdfRef(l[m].resp.text).path)
        /\ (m >= 1 /\ ~Yields(l[m])) =>
              IF m < candidates * TransportCount
              THEN pc = "resolve"
              ELSE pc = "check" /\ fetched = None /\ PdfPart = <<>>
        /\ (pc = "check" /\ PdfPart = <<>>) =>
              /\ m = candidates * TransportCount
              /\ \A k \in 1..m : ~Yields(l[k])

C5_Witness ==
    /\ Len(LayoutBaseUrls) = 2
    /\ Len(LayoutPart) = 3
    /\ LayoutPart[1].resp.kind = "ok"
    /\ ~Yields(LayoutPart[1])
    /\ LayoutPart[3].url = TestLayoutUrl
    /\ Yields(LayoutPart[3])
    /\ pc = "fetch"
    /\ pdf_url = Some(TestPdfUrl)

C5_WitnessNotFound ==
    /\ pc = "check"
    /\ PdfPart = <<>>
    /\ Len(LayoutPart) = 4

(***************************************************************************)
(* C6: the second, environment-ignoring transport exists exactly when one  *)
(* of the four proxy variables is set to a non-empty value; it is only     *)
(* tried right after the primary failed on the same URL, and with no such  *)
(* variable every request goes through the primary transport.              *)
(***************************************************************************)
\* the request did not end its loop: an exception, a non-success status,
\* or (for a landing page) no matching href
Unsuccessful(q) == IF q.phase = "pdf" THEN Failed(q) ELSE ~Yields(q)

C6_ProxyFallback ==
    /\ (fallback_session # None) <=> SomeProxySet
    /\ fallback_session # None => ~fallback_session[1].trust_env
    /\ ~SomeProxySet => \A k \in 1..Len(trace) : IsPrimary(trace[k].sess)
    /\ \A k \in 1..Len(trace) :
          ~IsPrimary(trace[k].sess) =>
              /\ SomeProxySet
              /\ k > 1
              /\ IsPrimary(trace[k - 1].sess)
              /\ trace[k - 1].url = trace[k].url
              /\ Unsuccessful(trace[k - 1])
    /\ \A k \in 1..Len(trace) :
          (SomeProxySet /\ IsPrimary(trace[k].sess) /\ Unsuccessful(trace[k])) =>
              IF k < Len(trace)
              THEN ~IsPrimary(trace[k + 1].sess) /\ trace[k + 1].url = trace[k].url
              ELSE Loading /\ sess_i = 2

C6_Witness ==
    /\ env["HTTPS_PROXY"] # Unset
    /\ env["HTTPS_PROXY"] # ""
    /\ \A k \in {"http_proxy", "https_proxy", "HTTP_PROXY"} : env[k] \in {Unset, ""}
    /\ Len(PdfPart) = 2
    /\ Failed(PdfPart[1])
    /\ ~IsPrimary(PdfPart[2].sess)
    /\ ~Failed(PdfPart[2])

(***************************************************************************)
(* C7: with compression enabled, an optimizer found, and an optimizer      *)
(* output smaller than the serialized document, the file holds the         *)
(* optimizer output and the optimizer ran exactly once.                    *)
(***************************************************************************)
C7_SmallerOutputIsWritten ==
    (/\ pc = "done"
     /\ compress
     /\ OptimizerFound
     /\ gs.outcome.out # None
     /\ Len(gs.outcome.out[1]) < Len(Serialize(writer))) =>
        /\ file = Written(gs.outcome.out[1])
        /\ calls.compress = 1
        /\ calls.gs_run = 1

\* C7, amended: the optimizer is found, exits with code zero and leaves a
\* non-empty output strictly smaller than the serialized document; then the
\* file holds the optimizer output and the optimizer ran exactly once.
C7_SuccessfulSmallerOutputIsWritten ==
    (/\ pc = "done"
     /\ compress
     /\ OptimizerFound
     /\ gs.outcome.returncode = 0
     /\ gs.outcome.out # None
     /\ gs.outcome.out[1] # <<>>
     /\ Len(gs.outcome.out[1]) < Len(Serialize(writer))) =>
        /\ file = Written(gs.outcome.out[1])
        /\ calls.compress = 1
        /\ calls.gs_run = 1

C7_Witness ==
    /\ pc = "done"
    /\ compress
    /\ OptimizerFound
    /\ gs.outcome.returncode = 0
    /\ gs.outcome.out # None
    /\ Len(gs.outcome.out[1]) = Len(Serialize(writer)) - 1
    /\ file.data = gs.outcome.out[1]
    /\ calls.gs_run = 1

(***************************************************************************)
(* C8: with compression enabled, when no optimizer is found, or it exits   *)
(* non-zero, or leaves no output file, or an output that is empty or not   *)
(* strictly smaller than its input (equal size included), the file holds   *)
(* the serialized document.                                                *)
(***************************************************************************)
C8_FallsBackToSerialized ==
    (/\ pc = "done"
     /\ compress
     /\ gs.seen
     /\ \/ gs.outcome.installed = {}
        \/ gs.outcome.returncode # 0
        \/ gs.outcome.out = None
        \/ gs.outcome.out[1] = <<>>
        \/ Len(gs.outcome.out[1]) >= Len(Serialize(writer))) =>
        file = Written(Serialize(writer))

C8_Witness ==
    /\ pc = "done"
    /\ compress
    /\ OptimizerFound
    /\ gs.outcome.returncode = 0
    /\ gs.outcome.out # None
    /\ Len(gs.outcome.out[1]) = Len(Serialize(writer))
    /\ calls.gs_run = 1
    /\ file = Written(Serialize(writer))

(***************************************************************************)
(* C9: with compression disabled neither _compress nor the optimizer is    *)
(* ever called, and a finished run leaves the serialized document in the   *)
(* file.                                                                   *)
(***************************************************************************)
C9_NoCompressionWhenDisabled ==
    ~compress =>
        /\ calls.compress = 0
        /\ calls.gs_run = 0
        /\ ~gs.seen
        /\ tmp = NoTmp
        /\ pc = "done" => file = Written(Serialize(writer))

C9_Witness ==
    /\ ~compress
    /\ pc = "done"
    /\ calls.save = 1
    /\ Len(pages) = 2
    /\ file = Written(Serialize(writer))

(***************************************************************************)
(* C10: with compression enabled, whatever the optimizer step meets, _save *)
(* raises nothing and the run writes the output file.                      *)
(***************************************************************************)
C10_CompressionNeverFatal ==
    (compress /\ calls.save >= 1) =>
        /\ pc = "done"
        /\ error = "none"
        /\ file.exists
        /\ file # file0

(***************************************************************************)
(* C11: whenever the optimizer step returned or raised after creating a    *)
(* temporary file, neither the temporary input file nor the temporary      *)
(* output file remains on disk.                                            *)
(***************************************************************************)
C11_TempFilesRemoved ==
    (gs.seen /\ tmp # NoTmp) =>
        /\ tmp.input # "left"
        /\ tmp.output # "left"

====
